---- MODULE Spec2Model ----
(***************************************************************************)
(* libv: v::vec<T, N> (include/vec.hpp) and v::vec3<T> (include/vec3.hpp). *)
(*                                                                         *)
(* A std::array<T, N> is a function [0..N-1 -> T].  The element type T is  *)
(* modelled by the integers: + - * are exact, / truncates toward zero and  *)
(* std::sqrt converted back to T is the integer square root.  The one      *)
(* value of T that is not an integer is DivByZero, what T's operator/      *)
(* yields for a zero divisor (Inf or NaN for a floating T).                *)
(*                                                                         *)
(* vec.hpp and vec3.hpp name the iterator range of the array p.first(),    *)
(* p.last(), the parameter names of the <algorithm>/<numeric> range        *)
(* [first, last); they are modelled as positions 0 and N.  p.second() is   *)
(* the position after first, 1.                                            *)
(***************************************************************************)
EXTENDS Integers, Sequences, FiniteSets, TLC

VARIABLES cls, N, exceptions, p, o, pre, call, ret

vars == <<cls, N, exceptions, p, o, pre, call, ret>>

(* Largest magnitude of an element drawn as input or kept by the object.   *)
MaxVal == 1

(* Largest index handed to at(): 0..2 are in range, the rest are not.      *)
MaxIndex == 4

Elem == -MaxVal..MaxVal

(* Dimensions the generic vec<T, N> is instantiated at.  (The return type  *)
(* of vec::cross, enable_if_t<N == 3, vec>, is no type for N # 3; the      *)
(* other members are modelled at those N as they are written.)             *)
Dims == 1..4

Vec(n) == [0..(n - 1) -> Elem]

Abs(x) == IF x < 0 THEN -x ELSE x

(* T's division-by-zero result: a value outside every finite result.       *)
DivByZero == -(2^30)

IsFinite(x) == x # DivByZero

(* T::operator/ : truncation toward zero, DivByZero for a zero divisor.    *)
Div(x, y) ==
    IF y = 0 THEN DivByZero
    ELSE IF (x < 0) = (y < 0) THEN Abs(x) \div Abs(y)
    ELSE -(Abs(x) \div Abs(y))

(* std::sqrt of a T converted back to value_type.                          *)
sqrt(x) == CHOOSE r \in 0..x : r * r <= x /\ x < (r + 1) * (r + 1)

(***************************************************************************)
(* std::array iterators                                                    *)
(***************************************************************************)
first(n) == 0

second(n) == 1

last(n) == n

(***************************************************************************)
(* <numeric> and <algorithm>                                               *)
(***************************************************************************)
plus(x, y) == x + y

multiplies(x, y) == x * y

BinaryOp(op, x, y) == IF op = "multiplies" THEN multiplies(x, y) ELSE plus(x, y)

RECURSIVE accumulate(_, _, _, _, _)
accumulate(v, i, j, init, op) ==
    IF i >= j THEN init
    ELSE accumulate(v, i + 1, j, BinaryOp(op, init, v[i]), op)

RECURSIVE transform_reduce(_, _, _, _, _, _)
transform_reduce(v, i, j, w, k, init) ==
    IF i >= j THEN init
    ELSE transform_reduce(v, i + 1, j, w, k + 1, init + (v[i] * w[k]))

RECURSIVE min_element_from(_, _, _, _)
min_element_from(v, i, j, smallest) ==
    IF i >= j THEN smallest
    ELSE min_element_from(v, i + 1, j, IF v[i] < v[smallest] THEN i ELSE smallest)

min_element(v, i, j) == IF i >= j THEN j ELSE min_element_from(v, i + 1, j, i)

RECURSIVE max_element_from(_, _, _, _)
max_element_from(v, i, j, largest) ==
    IF i >= j THEN largest
    ELSE max_element_from(v, i + 1, j, IF v[largest] < v[i] THEN i ELSE largest)

max_element(v, i, j) == IF i >= j THEN j ELSE max_element_from(v, i + 1, j, i)

(* std::array operator== : element-wise, over positions i..n-1.            *)
RECURSIVE array_eq(_, _, _, _)
array_eq(a, b, i, n) ==
    IF i >= n THEN TRUE
    ELSE IF a[i] # b[i] THEN FALSE
    ELSE array_eq(a, b, i + 1, n)

(* array_less without the test that ends the scan at a greater element.    *)
RECURSIVE array_less_scans_on(_, _, _, _)
array_less_scans_on(a, b, i, n) ==
    IF i >= n THEN FALSE
    ELSE IF a[i] < b[i] THEN TRUE
    ELSE array_less_scans_on(a, b, i + 1, n)

(* std::array operator< : std::lexicographical_compare.                    *)
RECURSIVE array_less(_, _, _, _)
array_less(a, b, i, n) ==
    IF i >= n THEN FALSE
    ELSE IF a[i] < b[i] THEN TRUE
    ELSE IF b[i] < a[i] THEN FALSE
    ELSE array_less(a, b, i + 1, n)

(***************************************************************************)
(* A const_reference argument: a temporary holding val, or a reference to  *)
(* element idx of the receiver itself.                                     *)
(***************************************************************************)
Temp(x) == [self |-> FALSE, idx |-> 0, val |-> x]

SelfRef(k) == [self |-> TRUE, idx |-> k, val |-> 0]

Deref(r, v) == IF r.self THEN v[r.idx] ELSE r.val

(***************************************************************************)
(* v::vec3<T>                                                              *)
(***************************************************************************)
vec3_ctor(x, y, z) == [i \in 0..2 |-> IF i = 0 THEN x ELSE IF i = 1 THEN y ELSE z]

vec3_fill(v, u) == [i \in 0..2 |-> u]

vec3_x(v) == v[0]

vec3_y(v) == v[1]

vec3_z(v) == v[2]

vec3_set_x(v, val) == [v EXCEPT ![0] = val]

(* y(v) writing the slot of z.                                             *)
vec3_set_y_wrong_slot(v, val) == [v EXCEPT ![2] = val]

vec3_set_y(v, val) == [v EXCEPT ![1] = val]

vec3_set_z(v, val) == [v EXCEPT ![2] = val]

vec3_subscript(v, n) == v[n]

vec3_dot(v, w) == (v[0] * w[0]) + (v[1] * w[1]) + (v[2] * w[2])

(* The temporary that cross()'s braced return list initialises.            *)
vec3_cross_temporary(v, w) ==
    vec3_ctor((v[1] * w[2]) - (v[2] * w[1]),
              (v[2] * w[0]) - (v[0] * w[2]),
              (v[0] * w[1]) - (v[1] * w[0]))

vec3_magnitude2(v) == (v[0] * v[0]) + (v[1] * v[1]) + (v[2] * v[2])

vec3_magnitude(v) == sqrt(vec3_magnitude2(v))

vec3_sum(v) == v[0] + v[1] + v[2]

vec3_prod(v) == v[0] * v[1] * v[2]

(* sum() / 3 : both operands are of type T.                                *)
vec3_mean(v) == Div(vec3_sum(v), 3)

vec3_min(v) == v[min_element(v, first(3), last(3))]

vec3_max(v) == v[max_element(v, first(3), last(3))]

vec3_sub_assign(v, rhs) ==
    LET p0 == [v EXCEPT ![0] = v[0] - rhs[0]]
        p1 == [p0 EXCEPT ![1] = p0[1] - rhs[1]]
    IN  [p1 EXCEPT ![2] = p1[2] - rhs[2]]

vec3_add_assign(v, rhs) ==
    LET p0 == [v EXCEPT ![0] = v[0] + rhs[0]]
        p1 == [p0 EXCEPT ![1] = p0[1] + rhs[1]]
    IN  [p1 EXCEPT ![2] = p1[2] + rhs[2]]

vec3_mul_assign(v, rhs) ==
    LET p0 == [v EXCEPT ![0] = v[0] * rhs[0]]
        p1 == [p0 EXCEPT ![1] = p0[1] * rhs[1]]
    IN  [p1 EXCEPT ![2] = p1[2] * rhs[2]]

vec3_div_assign(v, rhs) ==
    LET p0 == [v EXCEPT ![0] = Div(v[0], rhs[0])]
        p1 == [p0 EXCEPT ![1] = Div(p0[1], rhs[1])]
    IN  [p1 EXCEPT ![2] = Div(p1[2], rhs[2])]

(* operator*=(const_reference v): v is read anew by each statement.        *)
vec3_mul_assign_scalar(v, r) ==
    LET p0 == [v EXCEPT ![0] = v[0] * Deref(r, v)]
        p1 == [p0 EXCEPT ![1] = p0[1] * Deref(r, p0)]
    IN  [p1 EXCEPT ![2] = p1[2] * Deref(r, p1)]

vec3_div_assign_scalar(v, r) ==
    LET p0 == [v EXCEPT ![0] = Div(v[0], Deref(r, v))]
        p1 == [p0 EXCEPT ![1] = Div(p0[1], Deref(r, p0))]
    IN  [p1 EXCEPT ![2] = Div(p1[2], Deref(r, p1))]

(* normalize() dividing by the squared magnitude.                          *)
vec3_normalize_by_magnitude2(v) ==
    vec3_div_assign_scalar(v, Temp(vec3_magnitude2(v)))

(* *this /= magnitude(): the divisor is a temporary made before the call.  *)
vec3_normalize(v) == vec3_div_assign_scalar(v, Temp(vec3_magnitude(v)))

(* impl::throw_out_of_range: throws, or terminates without exceptions.     *)
throw_out_of_range(s, exc) ==
    [err |-> IF exc THEN "out_of_range" ELSE "terminate", what |-> s,
     returned |-> FALSE, slot |-> 0]

(* at(n) with the bound off by one.                                        *)
vec3_at_off_by_one(n, exc) ==
    IF n >= 2 THEN throw_out_of_range("v::vec3::at", exc)
    ELSE [err |-> "none", what |-> "", returned |-> TRUE, slot |-> n]

(* at(n): the slot the returned reference names, or the error.             *)
vec3_at(n, exc) ==
    IF n >= 3 THEN throw_out_of_range("v::vec3::at", exc)
    ELSE [err |-> "none", what |-> "", returned |-> TRUE, slot |-> n]

(***************************************************************************)
(* v::vec<T, N>                                                            *)
(***************************************************************************)
vec_fill(v, n, u) == [i \in 0..(n - 1) |-> u]

vec_subscript(v, n) == v[n]

vec_dot(v, w, n) == transform_reduce(v, first(n), last(n), w, first(n), 0)

vec_cross_temporary(v, w) ==
    [i \in 0..2 |-> IF i = 0 THEN (v[1] * w[2]) - (v[2] * w[1])
                    ELSE IF i = 1 THEN (v[2] * w[0]) - (v[0] * w[2])
                    ELSE (v[0] * w[1]) - (v[1] * w[0])]

vec_magnitude2(v, n) == transform_reduce(v, first(n), last(n), v, first(n), 0)

vec_magnitude(v, n) == sqrt(vec_magnitude2(v, n))

vec_sum(v, n) == accumulate(v, first(n), second(n), 0, "plus")

(* prod() folding from the first element it is seeded with.                *)
vec_prod_from_first(v, n) == accumulate(v, first(n), last(n), v[first(n)], "multiplies")

vec_prod(v, n) == accumulate(v, first(n) + 1, last(n), v[first(n)], "multiplies")

vec_min(v, n) == v[min_element(v, first(n), last(n))]

vec_max(v, n) == v[max_element(v, first(n), last(n))]

RECURSIVE vec_add_assign_loop(_, _, _, _)
vec_add_assign_loop(v, rhs, i, n) ==
    IF i >= n THEN v
    ELSE vec_add_assign_loop([v EXCEPT ![i] = v[i] + rhs[i]], rhs, i + 1, n)

vec_add_assign(v, rhs, n) == vec_add_assign_loop(v, rhs, 0, n)

RECURSIVE vec_sub_assign_loop(_, _, _, _)
vec_sub_assign_loop(v, rhs, i, n) ==
    IF i >= n THEN v
    ELSE vec_sub_assign_loop([v EXCEPT ![i] = v[i] - rhs[i]], rhs, i + 1, n)

vec_sub_assign(v, rhs, n) == vec_sub_assign_loop(v, rhs, 0, n)

RECURSIVE vec_mul_assign_loop(_, _, _, _)
vec_mul_assign_loop(v, rhs, i, n) ==
    IF i >= n THEN v
    ELSE vec_mul_assign_loop([v EXCEPT ![i] = v[i] * rhs[i]], rhs, i + 1, n)

vec_mul_assign(v, rhs, n) == vec_mul_assign_loop(v, rhs, 0, n)

RECURSIVE vec_div_assign_loop(_, _, _, _)
vec_div_assign_loop(v, rhs, i, n) ==
    IF i >= n THEN v
    ELSE vec_div_assign_loop([v EXCEPT ![i] = Div(v[i], rhs[i])], rhs, i + 1, n)

vec_div_assign(v, rhs, n) == vec_div_assign_loop(v, rhs, 0, n)

(* operator*=(const_reference v): v is read anew by each iteration.        *)
RECURSIVE vec_mul_assign_scalar_loop(_, _, _, _)
vec_mul_assign_scalar_loop(v, r, i, n) ==
    IF i >= n THEN v
    ELSE vec_mul_assign_scalar_loop([v EXCEPT ![i] = v[i] * Deref(r, v)], r, i + 1, n)

vec_mul_assign_scalar(v, r, n) == vec_mul_assign_scalar_loop(v, r, 0, n)

RECURSIVE vec_div_assign_scalar_loop(_, _, _, _)
vec_div_assign_scalar_loop(v, r, i, n) ==
    IF i >= n THEN v
    ELSE vec_div_assign_scalar_loop([v EXCEPT ![i] = Div(v[i], Deref(r, v))], r, i + 1, n)

vec_div_assign_scalar(v, r, n) == vec_div_assign_scalar_loop(v, r, 0, n)

vec_normalize(v, n) == vec_div_assign_scalar(v, Temp(vec_magnitude(v, n)), n)

(* sum() / N in vec::mean(): N is a std::size_t, so a 32-bit int sum is    *)
(* converted to the 64-bit unsigned type, divided there, and the quotient  *)
(* converted back to value_type.  A size_t is four 16-bit limbs, most      *)
(* significant first.                                                      *)
Limb == 2^16

to_size_t(x) ==
    IF x >= 0 THEN <<0, 0, x \div Limb, x % Limb>>
    ELSE LET t == x + (2^30) + (2^30)
         IN  <<Limb - 1, Limb - 1, (t \div Limb) + (Limb \div 2), t % Limb>>

RECURSIVE size_t_div_from(_, _, _, _)
size_t_div_from(l, d, i, rem) ==
    IF i > 4 THEN <<>>
    ELSE LET cur == (rem * Limb) + l[i]
         IN  <<cur \div d>> \o size_t_div_from(l, d, i + 1, cur % d)

size_t_div(l, d) == size_t_div_from(l, d, 1, 0)

to_value_type(l) ==
    IF l[3] >= Limb \div 2 THEN ((l[3] - Limb) * Limb) + l[4]
    ELSE (l[3] * Limb) + l[4]

vec_mean(v, n) == to_value_type(size_t_div(to_size_t(vec_sum(v, n)), n))

(***************************************************************************)
(* Comparison operators and the value-returning free functions.            *)
(***************************************************************************)
vec3_eq(lhs, rhs) == array_eq(lhs, rhs, 0, 3)

vec3_ne(lhs, rhs) == ~vec3_eq(lhs, rhs)

vec3_lt(lhs, rhs) == array_less(lhs, rhs, 0, 3)

vec3_gt(lhs, rhs) == vec3_lt(rhs, lhs)

vec3_le(lhs, rhs) == ~vec3_gt(lhs, rhs)

vec3_ge(lhs, rhs) == ~vec3_lt(lhs, rhs)

vec_eq(lhs, rhs, n) == array_eq(lhs, rhs, 0, n)

vec_ne(lhs, rhs, n) == ~vec_eq(lhs, rhs, n)

vec_lt(lhs, rhs, n) == array_less(lhs, rhs, 0, n)

vec_gt(lhs, rhs, n) == vec_lt(rhs, lhs, n)

vec_le(lhs, rhs, n) == ~vec_gt(lhs, rhs, n)

vec_ge(lhs, rhs, n) == ~vec_lt(lhs, rhs, n)

(* lhs is taken by value: the member acts on the copy, which is returned.  *)
vec3_plus(lhs, rhs) == vec3_add_assign(lhs, rhs)

vec3_minus(lhs, rhs) == vec3_sub_assign(lhs, rhs)

vec3_times(lhs, rhs) == vec3_mul_assign(lhs, rhs)

vec3_over(lhs, rhs) == vec3_div_assign(lhs, rhs)

vec3_times_scalar(lhs, s) == vec3_mul_assign_scalar(lhs, Temp(s))

vec3_over_scalar(lhs, s) == vec3_div_assign_scalar(lhs, Temp(s))

vec3_free_normalize(v) == vec3_normalize(v)

vec_plus(lhs, rhs, n) == vec_add_assign(lhs, rhs, n)

vec_minus(lhs, rhs, n) == vec_sub_assign(lhs, rhs, n)

vec_times(lhs, rhs, n) == vec_mul_assign(lhs, rhs, n)

vec_over(lhs, rhs, n) == vec_div_assign(lhs, rhs, n)

vec_times_scalar(lhs, s, n) == vec_mul_assign_scalar(lhs, Temp(s), n)

vec_over_scalar(lhs, s, n) == vec_div_assign_scalar(lhs, Temp(s), n)

vec_free_normalize(v, n) == vec_normalize(v, n)

Zero(n) == [i \in 0..(n - 1) |-> 0]

(* dot(a, b) is declared to return the vector type and returns a.dot(b), a *)
(* value_type: neither class converts from value_type, the call does not   *)
(* compile and nothing is returned.                                        *)
vec3_free_dot(a, b) ==
    [err |-> "no conversion from value_type to vec3", kind |-> "none",
     val |-> 0, vec |-> Zero(3)]

vec_free_dot(a, b, n) ==
    [err |-> "no conversion from value_type to vec", kind |-> "none",
     val |-> 0, vec |-> Zero(n)]

(* A returned reference to a temporary that is destroyed when the return   *)
(* statement ends: the caller reads the temporary's old value, or what its *)
(* storage was overwritten with since (here one value u in every slot).    *)
DanglingRead(temporary) == {temporary} \cup {[i \in 0..2 |-> u] : u \in Elem}

(***************************************************************************)
(* The state: one receiver object p of class cls and dimension N, the      *)
(* other vector operand o of the last call (Zero when it had none), both   *)
(* as they are after the call; pre holds both as they were when the call   *)
(* started, call names the member or function called with its scalar       *)
(* arguments, ret is what it returned.                                     *)
(***************************************************************************)
Call(op, args) == [op |-> op, args |-> args]

Returned(kind, val, vec) == [err |-> "none", kind |-> kind, val |-> val, vec |-> vec]

Void == Returned("void", 0, Zero(N))

Value(x) == Returned("value", x, Zero(N))

InElem(v) == \A i \in DOMAIN v : v[i] \in Elem

NonZero(v) == \A i \in DOMAIN v : v[i] # 0

(***************************************************************************)
(* The life of one vec3<T> object.                                         *)
(***************************************************************************)
Construct ==
    \E x \in Elem, y \in Elem, z \in Elem :
        /\ cls = "vec3" /\ N = 3
        /\ exceptions \in BOOLEAN
        /\ p = vec3_ctor(x, y, z)
        /\ o = Zero(3)
        /\ pre = [p |-> Zero(3), o |-> Zero(3)]
        /\ call = Call("vec3", <<x, y, z>>)
        /\ ret = Void

Mutate(op, args, np, rhs, no) ==
    /\ InElem(np)
    /\ p' = np
    /\ o' = no
    /\ pre' = [p |-> p, o |-> rhs]
    /\ call' = Call(op, args)
    /\ ret' = Void
    /\ UNCHANGED <<cls, N, exceptions>>

Read(op, args, x) ==
    /\ o' = Zero(N)
    /\ pre' = [p |-> p, o |-> Zero(N)]
    /\ call' = Call(op, args)
    /\ ret' = Value(x)
    /\ UNCHANGED <<cls, N, exceptions, p>>

SetX == \E val \in Elem : Mutate("x=", <<val>>, vec3_set_x(p, val), Zero(N), Zero(N))

SetY == \E val \in Elem : Mutate("y=", <<val>>, vec3_set_y(p, val), Zero(N), Zero(N))

SetZ == \E val \in Elem : Mutate("z=", <<val>>, vec3_set_z(p, val), Zero(N), Zero(N))

GetX == Read("x", <<>>, vec3_x(p))

GetY == Read("y", <<>>, vec3_y(p))

GetZ == Read("z", <<>>, vec3_z(p))

(* v[n]: the caller keeps n in 0..2.                                       *)
SubscriptRead == \E n \in 0..2 : Read("[]", <<n>>, vec3_subscript(p, n))

SubscriptWrite ==
    \E n \in 0..2, val \in Elem :
        Mutate("[]=", <<n, val>>, [p EXCEPT ![n] = val], Zero(N), Zero(N))

(* v.at(n), read (val unused) or assigned through: v.at(n) = val.          *)
At(op, n, val, write) ==
    LET r == vec3_at(n, exceptions)
    IN  /\ o' = Zero(N)
        /\ pre' = [p |-> p, o |-> Zero(N)]
        /\ call' = Call(op, <<n, val>>)
        /\ IF r.returned
           THEN /\ p' = IF write THEN [p EXCEPT ![r.slot] = val] ELSE p
                /\ ret' = Value(p'[r.slot])
           ELSE /\ p' = p
                /\ ret' = [err |-> r.err, kind |-> "none", val |-> 0, vec |-> Zero(N)]
        /\ UNCHANGED <<cls, N, exceptions>>

AtRead == \E n \in 0..MaxIndex : At("at", n, 0, FALSE)

AtWrite == \E n \in 0..MaxIndex, val \in Elem : At("at=", n, val, TRUE)

Fill == \E u \in Elem : Mutate("fill", <<u>>, vec3_fill(p, u), Zero(N), Zero(N))

(* The other vec3 objects of the program: vec3(u, w, u).                    *)
Operands == {vec3_ctor(u, w, u) : u \in Elem, w \in Elem}

Swap == \E other \in Operands : Mutate("swap", <<>>, other, other, p)

AddAssign == \E rhs \in Operands : Mutate("+=", <<>>, vec3_add_assign(p, rhs), rhs, rhs)

SubAssign == \E rhs \in Operands : Mutate("-=", <<>>, vec3_sub_assign(p, rhs), rhs, rhs)

MulAssign == \E rhs \in Operands : Mutate("*=", <<>>, vec3_mul_assign(p, rhs), rhs, rhs)

DivAssign ==
    \E rhs \in Operands :
        /\ NonZero(rhs)
        /\ Mutate("/=", <<>>, vec3_div_assign(p, rhs), rhs, rhs)

MulAssignScalar ==
    \E s \in Elem : Mutate("*=s", <<s>>, vec3_mul_assign_scalar(p, Temp(s)), Zero(N), Zero(N))

DivAssignScalar ==
    \E s \in Elem \ {0} :
        Mutate("/=s", <<s>>, vec3_div_assign_scalar(p, Temp(s)), Zero(N), Zero(N))

Init == Construct

Next ==
    \/ SetX \/ SetY \/ SetZ
    \/ GetX \/ GetY \/ GetZ
    \/ SubscriptRead \/ SubscriptWrite
    \/ AtRead \/ AtWrite
    \/ Fill \/ Swap
    \/ AddAssign \/ SubAssign \/ MulAssign \/ DivAssign
    \/ MulAssignScalar \/ DivAssignScalar

Spec == Init /\ [][Next]_vars

(***************************************************************************)
(* One call on freshly constructed operands: the receiver p and the other  *)
(* operand o are drawn at the start, pre keeps them, and one member or     *)
(* free function is called.                                                *)
(***************************************************************************)
(* Largest magnitude of an element of a lone operand.                      *)
MaxUnary == 3

ElemU == -MaxUnary..MaxUnary

Classes == {"vec3", "vec"}

Idle == call.op = "init"

Operand(c, n, S) ==
    /\ cls = c /\ N = n
    /\ exceptions = TRUE
    /\ p \in [0..(n - 1) -> S]
    /\ call = Call("init", <<>>)
    /\ ret = Void

(* vec3<T>, or vec<T, N> for N in Dims, with elements drawn from ElemU.    *)
InitUnary ==
    \E c \in Classes, n \in Dims :
        /\ c = "vec3" => n = 3
        /\ Operand(c, n, ElemU)
        /\ o = Zero(n)
        /\ pre = [p |-> p, o |-> o]

(* Two vec3<T>, or two vec<T, N> for N in 2..3, with elements from Elem.   *)
InitBinary ==
    \E c \in Classes, n \in 2..3 :
        /\ c = "vec3" => n = 3
        /\ Operand(c, n, Elem)
        /\ o \in Vec(n)
        /\ pre = [p |-> p, o |-> o]

(* A const member or a free function: the operands are not written.        *)
Query(op, args, r) ==
    /\ Idle
    /\ call' = Call(op, args)
    /\ ret' = r
    /\ UNCHANGED <<cls, N, exceptions, p, o, pre>>

(* A mutating member: returns *this.                                       *)
Assign(op, args, np) ==
    /\ Idle
    /\ p' = np
    /\ call' = Call(op, args)
    /\ ret' = Returned("this", 0, np)
    /\ UNCHANGED <<cls, N, exceptions, o, pre>>

CallSum == Query("sum", <<>>, Value(IF cls = "vec3" THEN vec3_sum(p) ELSE vec_sum(p, N)))

CallProd == Query("prod", <<>>, Value(IF cls = "vec3" THEN vec3_prod(p) ELSE vec_prod(p, N)))

CallMean == Query("mean", <<>>, Value(IF cls = "vec3" THEN vec3_mean(p) ELSE vec_mean(p, N)))

CallMin == Query("min", <<>>, Value(IF cls = "vec3" THEN vec3_min(p) ELSE vec_min(p, N)))

CallMax == Query("max", <<>>, Value(IF cls = "vec3" THEN vec3_max(p) ELSE vec_max(p, N)))

CallMagnitude2 ==
    Query("magnitude2", <<>>,
          Value(IF cls = "vec3" THEN vec3_magnitude2(p) ELSE vec_magnitude2(p, N)))

CallMagnitude ==
    Query("magnitude", <<>>,
          Value(IF cls = "vec3" THEN vec3_magnitude(p) ELSE vec_magnitude(p, N)))

CallNormalize ==
    Assign("normalize", <<>>, IF cls = "vec3" THEN vec3_normalize(p) ELSE vec_normalize(p, N))

(* The scalar argument: a temporary, or one of the receiver's elements.    *)
ScalarArgs == {Temp(s) : s \in ElemU} \cup {SelfRef(k) : k \in 0..(N - 1)}

CallMulAssignScalar ==
    \E r \in ScalarArgs :
        Assign("*=s", <<Deref(r, p)>>,
               IF cls = "vec3" THEN vec3_mul_assign_scalar(p, r)
               ELSE vec_mul_assign_scalar(p, r, N))

(* v /= v[k] is called with v[k] # 0.                                      *)
CallDivAssignScalar ==
    \E r \in ScalarArgs :
        /\ r.self => p[r.idx] # 0
        /\ Assign("/=s", <<Deref(r, p)>>,
                  IF cls = "vec3" THEN vec3_div_assign_scalar(p, r)
                  ELSE vec_div_assign_scalar(p, r, N))

NextUnary ==
    \/ CallSum \/ CallProd \/ CallMean \/ CallMin \/ CallMax
    \/ CallMagnitude2 \/ CallMagnitude
    \/ CallNormalize
    \/ CallMulAssignScalar \/ CallDivAssignScalar

SpecUnary == InitUnary /\ [][NextUnary]_vars

CallDot == Query("dot", <<>>, Value(IF cls = "vec3" THEN vec3_dot(p, o) ELSE vec_dot(p, o, N)))

(* cross() exists for N = 3 only and returns a reference to a temporary.   *)
CallCross ==
    /\ N = 3
    /\ \E r \in DanglingRead(IF cls = "vec3" THEN vec3_cross_temporary(p, o)
                             ELSE vec_cross_temporary(p, o)) :
           Query("cross", <<>>, Returned("ref", 0, r))

CallCompare ==
    Query("compare", <<>>,
          IF cls = "vec3"
          THEN [err |-> "none", kind |-> "bool",
                eq |-> vec3_eq(p, o), ne |-> vec3_ne(p, o),
                lt |-> vec3_lt(p, o), gt |-> vec3_gt(p, o),
                le |-> vec3_le(p, o), ge |-> vec3_ge(p, o),
                rlt |-> vec3_lt(o, p)]
          ELSE [err |-> "none", kind |-> "bool",
                eq |-> vec_eq(p, o, N), ne |-> vec_ne(p, o, N),
                lt |-> vec_lt(p, o, N), gt |-> vec_gt(p, o, N),
                le |-> vec_le(p, o, N), ge |-> vec_ge(p, o, N),
                rlt |-> vec_lt(o, p, N)])

CallPlus ==
    Query("+", <<>>,
          Returned("vec", 0, IF cls = "vec3" THEN vec3_plus(p, o) ELSE vec_plus(p, o, N)))

CallMinus ==
    Query("-", <<>>,
          Returned("vec", 0, IF cls = "vec3" THEN vec3_minus(p, o) ELSE vec_minus(p, o, N)))

CallTimes ==
    Query("*", <<>>,
          Returned("vec", 0, IF cls = "vec3" THEN vec3_times(p, o) ELSE vec_times(p, o, N)))

CallOver ==
    Query("/", <<>>,
          Returned("vec", 0, IF cls = "vec3" THEN vec3_over(p, o) ELSE vec_over(p, o, N)))

(* a * s and a / s: s is a temporary or an element of the caller's a or b. *)
CallTimesScalar ==
    \E s \in Elem :
        Query("*s", <<s>>,
              Returned("vec", 0, IF cls = "vec3" THEN vec3_times_scalar(p, s)
                                 ELSE vec_times_scalar(p, s, N)))

CallOverScalar ==
    \E s \in Elem :
        Query("/s", <<s>>,
              Returned("vec", 0, IF cls = "vec3" THEN vec3_over_scalar(p, s)
                                 ELSE vec_over_scalar(p, s, N)))

CallFreeNormalize ==
    Query("normalize(v)", <<>>,
          Returned("vec", 0, IF cls = "vec3" THEN vec3_free_normalize(p)
                             ELSE vec_free_normalize(p, N)))

CallFreeDot ==
    Query("dot(a,b)", <<>>,
          IF cls = "vec3" THEN vec3_free_dot(p, o) ELSE vec_free_dot(p, o, N))

NextBinary ==
    \/ CallProd \/ CallMin \/ CallMax \/ CallMagnitude2
    \/ CallDot \/ CallCross \/ CallCompare
    \/ CallPlus \/ CallMinus \/ CallTimes \/ CallOver
    \/ CallTimesScalar \/ CallOverScalar
    \/ CallFreeNormalize \/ CallFreeDot

SpecBinary == InitBinary /\ [][NextBinary]_vars

(***************************************************************************)
(* Properties                                                              *)
(***************************************************************************)
RECURSIVE Total(_, _)
Total(v, n) == IF n = 0 THEN 0 ELSE Total(v, n - 1) + v[n - 1]

SumOfProducts(v, w, n) == Total([i \in 0..(n - 1) |-> v[i] * w[i]], n)

(* The integer quotient rounded toward zero, d # 0.                         *)
TruncQuot(x, d) ==
    CHOOSE q \in -Abs(x)..Abs(x) :
        /\ Abs(q) * Abs(d) <= Abs(x)
        /\ Abs(x) < (Abs(q) + 1) * Abs(d)
        /\ q # 0 => ((q < 0) = ((x < 0) # (d < 0)))

Cross(a, b) ==
    [i \in 0..2 |-> IF i = 0 THEN (a[1] * b[2]) - (a[2] * b[1])
                    ELSE IF i = 1 THEN (a[2] * b[0]) - (a[0] * b[2])
                    ELSE (a[0] * b[1]) - (a[1] * b[0])]

(* C1: at(n) with n >= 3 signals the out-of-range error (or terminates     *)
(* without exceptions), returns no element and leaves the three elements   *)
(* unchanged; at(n) with n in 0..2 signals nothing and returns the element *)
(* v[n].                                                                   *)
C1_AtIsChecked ==
    call.op \in {"at", "at="} =>
        LET n == call.args[1]
        IN  IF n >= 3
            THEN /\ ret.err = (IF exceptions THEN "out_of_range" ELSE "terminate")
                 /\ ret.kind = "none"
                 /\ p = pre.p
            ELSE /\ ret.err = "none"
                 /\ ret.kind = "value"
                 /\ ret.val = vec3_subscript(p, n)
                 /\ call.op = "at" => p = pre.p /\ ret.val = vec3_subscript(pre.p, n)

C1_Witness ==
    /\ call.op = "at" /\ call.args[1] = 3
    /\ ret.err = "out_of_range"
    /\ \E i \in 0..2 : p[i] # 0

(* C8: in every state of a vec3 the named and the positional views agree,  *)
(* x() == v[0], y() == v[1], z() == v[2]; after vec3(a, b, c) they are a,  *)
(* b, c; a named setter writes its own slot and leaves the other two.      *)
C8_ViewsAgree ==
    /\ vec3_x(p) = vec3_subscript(p, 0)
    /\ vec3_y(p) = vec3_subscript(p, 1)
    /\ vec3_z(p) = vec3_subscript(p, 2)
    /\ call.op = "vec3" =>
           /\ vec3_x(p) = call.args[1]
           /\ vec3_y(p) = call.args[2]
           /\ vec3_z(p) = call.args[3]
    /\ call.op = "x=" =>
           vec3_x(p) = call.args[1] /\ p[1] = pre.p[1] /\ p[2] = pre.p[2]
    /\ call.op = "y=" =>
           vec3_y(p) = call.args[1] /\ p[0] = pre.p[0] /\ p[2] = pre.p[2]
    /\ call.op = "z=" =>
           vec3_z(p) = call.args[1] /\ p[0] = pre.p[0] /\ p[1] = pre.p[1]
    /\ call.op = "x" => ret.val = vec3_subscript(p, 0)
    /\ call.op = "y" => ret.val = vec3_subscript(p, 1)
    /\ call.op = "z" => ret.val = vec3_subscript(p, 2)
    /\ call.op \in {"[]=", "at="} /\ ret.err = "none" =>
           LET n == call.args[1]
           IN  call.args[2] = (IF n = 0 THEN vec3_x(p)
                               ELSE IF n = 1 THEN vec3_y(p) ELSE vec3_z(p))

C8_Witness ==
    /\ call.op = "y="
    /\ p[1] # pre.p[1]
    /\ p[0] # p[1] /\ p[2] # p[1]

C3_SumIsTotal ==
    call.op = "sum" /\ cls = "vec" => ret.val = Total(pre.p, N)

(* C4: for 32-bit int elements vec<int, 3>::mean() and vec3<int>::mean()   *)
(* return the same value, the truncating quotient of the element sum by 3. *)
C4_MeanIsQuotient ==
    call.op = "mean" /\ N = 3 =>
        /\ ret.val = TruncQuot(Total(pre.p, 3), 3)
        /\ vec_mean(pre.p, 3) = vec3_mean(pre.p)

(* C5: a.cross(b) yields to the caller the vector (a1*b2 - a2*b1,          *)
(* a2*b0 - a0*b2, a0*b1 - a1*b0) and leaves a and b unmodified.            *)
C5_CrossYieldsProduct ==
    call.op = "cross" =>
        /\ ret.vec = Cross(pre.p, pre.o)
        /\ p = pre.p /\ o = pre.o

(* C6: each free function returns what the matching in-place member leaves *)
(* in a copy of a, dot(a, b) returns the inner product a.dot(b), and the   *)
(* caller's operands are as before the call.                               *)
C6_FreeFunctionsMirror ==
    LET a == pre.p
        b == pre.o
        s == call.args[1]
        three == cls = "vec3"
    IN  /\ call.op \in {"+", "-", "*", "/", "*s", "/s", "normalize(v)", "dot(a,b)"} =>
               p = a /\ o = b /\ ret.err = "none"
        /\ call.op = "+" =>
               ret.vec = (IF three THEN vec3_add_assign(a, b) ELSE vec_add_assign(a, b, N))
        /\ call.op = "-" =>
               ret.vec = (IF three THEN vec3_sub_assign(a, b) ELSE vec_sub_assign(a, b, N))
        /\ call.op = "*" =>
               ret.vec = (IF three THEN vec3_mul_assign(a, b) ELSE vec_mul_assign(a, b, N))
        /\ call.op = "/" =>
               ret.vec = (IF three THEN vec3_div_assign(a, b) ELSE vec_div_assign(a, b, N))
        /\ call.op = "*s" =>
               ret.vec = (IF three THEN vec3_mul_assign_scalar(a, Temp(s))
                          ELSE vec_mul_assign_scalar(a, Temp(s), N))
        /\ call.op = "/s" =>
               ret.vec = (IF three THEN vec3_div_assign_scalar(a, Temp(s))
                          ELSE vec_div_assign_scalar(a, Temp(s), N))
        /\ call.op = "normalize(v)" =>
               ret.vec = (IF three THEN vec3_normalize(a) ELSE vec_normalize(a, N))
        /\ call.op = "dot(a,b)" =>
               /\ ret.kind = "value"
               /\ ret.val = (IF three THEN vec3_dot(a, b) ELSE vec_dot(a, b, N))

C7_WitnessZero ==
    /\ call.op = "normalize"
    /\ pre.p = Zero(N)
    /\ \A i \in 0..(N - 1) : p[i] = DivByZero

C10_ScalesByOneScalar ==
    /\ call.op = "*=s" =>
           \A i \in 0..(N - 1) : p[i] = pre.p[i] * call.args[1]
    /\ call.op = "/=s" =>
           \A i \in 0..(N - 1) :
               p[i] = (IF call.args[1] = 0 THEN DivByZero
                       ELSE TruncQuot(pre.p[i], call.args[1]))

====
